---------------------------- MODULE Spec2Model ----------------------------
(***************************************************************************)
(* A model of mavftp-cli: the MAVLink FTP payload codec (src/src/mavftp.rs) *)
(* and the operation Controller (src/src/controller.rs).                   *)
(*                                                                         *)
(* Bytes are the integers 0..255, byte strings are sequences of bytes.     *)
(* Unsigned integers keep their width: u8 and u16 arithmetic is modelled   *)
(* with its overflow behaviour (a panic when the build checks overflow,    *)
(* wrap-around when it does not).  The model checker's integers are 32-bit *)
(* signed, so u32 values stay below 2^31 in every input the model draws.   *)
(***************************************************************************)
EXTENDS Integers, Sequences, FiniteSets

(***************************************************************************)
(* MavlinkFtpOpcode (mavftp.rs 6-25) and MavlinkFtpNak (mavftp.rs 28-51):  *)
(* the enum discriminants.                                                 *)
(***************************************************************************)
OpNone == 0
OpTerminateSession == 1
OpResetSessions == 2
OpListDirectory == 3
OpOpenFileRO == 4
OpCalcFileCRC32 == 14
OpBurstReadFile == 15
OpAck == 128
OpNak == 129

NakFailErrno == 2
NakEOF == 6
NakFileNotFound == 10

\* MavlinkFtpOpcode::from_u8 succeeds exactly on the discriminants 0..15, 128, 129.
OpcodeValid(b) == b \in (0..15) \cup {OpAck, OpNak}

\* MavlinkFtpNak::from_u8 succeeds exactly on the discriminants 0..10.
NakValid(b) == b \in 0..10

\* 239 is the max size on the data field (mavftp.rs 199).
MaxDataSize == 239

\* usize::MAX as passed by the Controller (controller.rs 118, 249).  Every
\* value at or above MaxDataSize clamps alike; this is the largest integer
\* the model checker represents.
UsizeMax == 2147483647

\* size_left.clamp(0, 239)
Clamp(x, lo, hi) == IF x < lo THEN lo ELSE IF x > hi THEN hi ELSE x

(***************************************************************************)
(* MavlinkFtpPayload and its six constructors.                             *)
(***************************************************************************)
Payload(seq, sess, op, sz, req, bc, pad, off, dat) ==
    [seq_number |-> seq, session |-> sess, opcode |-> op, size |-> sz,
     req_opcode |-> req, burst_complete |-> bc, padding |-> pad,
     offset |-> off, data |-> dat]

new_reset_sesions(seq_number, session) ==
    Payload(seq_number, session, OpResetSessions, 0, OpNone, 0, 0, 0, <<>>)

new_terminate_session(seq_number, session) ==
    Payload(seq_number, session, OpTerminateSession, 0, OpNone, 0, 0, 0, <<>>)

new_list_directory(seq_number, session, offset, path) ==
    Payload(seq_number, session, OpListDirectory, Len(path), OpNone, 0, 0, offset, path)

new_open_file(seq_number, session, path) ==
    Payload(seq_number, session, OpOpenFileRO, Len(path), OpNone, 0, 0, 0, path)

new_read_file(seq_number, session, offset, size_left) ==
    Payload(seq_number, session, OpBurstReadFile, Clamp(size_left, 0, MaxDataSize),
            OpNone, 0, 0, offset, <<>>)

new_calc_file_crc32(seq_number, session, path) ==
    Payload(seq_number, session, OpCalcFileCRC32, Len(path), OpNone, 0, 0, 0, path)

(***************************************************************************)
(* Little-endian integer conversions.                                      *)
(***************************************************************************)
u16_to_le_bytes(x) == << x % 256, (x \div 256) % 256 >>

u32_to_le_bytes(x) ==
    << x % 256, (x \div 256) % 256, (x \div 65536) % 256, (x \div 16777216) % 256 >>

u16_from_le_bytes(b) == b[1] + 256 * b[2]

u32_from_le_bytes(b) == b[1] + 256 * b[2] + 65536 * b[3] + 16777216 * b[4]

(***************************************************************************)
(* to_bytes: the 12-byte header followed by the data.  `self.size as u8`   *)
(* keeps the low 8 bits of the size.                                       *)
(***************************************************************************)
to_bytes_big_endian(p) ==
    << (p.seq_number \div 256) % 256, p.seq_number % 256 >>
      \o << p.session, p.opcode, p.size % 256, p.req_opcode,
            p.burst_complete, p.padding >>
      \o u32_to_le_bytes(p.offset)
      \o p.data

to_bytes(p) ==
    u16_to_le_bytes(p.seq_number)
      \o << p.session, p.opcode, p.size % 256, p.req_opcode,
            p.burst_complete, p.padding >>
      \o u32_to_le_bytes(p.offset)
      \o p.data

(***************************************************************************)
(* from_bytes.  The result is Ok(payload), Err(message) or a panic: the    *)
(* struct fields are evaluated in order, so an unknown opcode byte returns *)
(* its error before the data slice bytes[12..12 + size] is taken, and that *)
(* slice panics when the input is shorter than 12 + size bytes.            *)
(***************************************************************************)
NoPayload == Payload(0, 0, OpNone, 0, OpNone, 0, 0, 0, <<>>)

Ok(p) == [tag |-> "Ok", msg |-> "", payload |-> p]
Err(m) == [tag |-> "Err", msg |-> m, payload |-> NoPayload]
Panic(m) == [tag |-> "Panic", msg |-> m, payload |-> NoPayload]

from_bytes(bytes) ==
    IF Len(bytes) < 12 THEN Err("Insufficient bytes in input array")
    ELSE IF ~OpcodeValid(bytes[4]) THEN Err("Invalid opcode")
    ELSE IF ~OpcodeValid(bytes[6]) THEN Err("Invalid req_opcode")
    ELSE IF Len(bytes) < 12 + bytes[5] THEN Panic("range end index out of range")
    ELSE Ok(Payload(u16_from_le_bytes(SubSeq(bytes, 1, 2)), bytes[3], bytes[4],
                    bytes[5], bytes[6], bytes[7], bytes[8],
                    u32_from_le_bytes(SubSeq(bytes, 9, 12)),
                    SubSeq(bytes, 13, 12 + bytes[5])))


(***************************************************************************)
(* Directory records.  '\t' is 9, '/' is 47, '+' is 43, the digits are     *)
(* 48..57 and the type characters 'F', 'D', 'S' are 70, 68, 83.            *)
(***************************************************************************)
\* slice.split(|&byte| byte == sep): the pieces between separators; an input
\* with n separators yields n + 1 pieces, so the empty input yields one
\* empty piece.
RECURSIVE Split(_, _)
Split(s, sep) ==
    IF \A i \in 1..Len(s) : s[i] # sep THEN << s >>
    ELSE LET idx == CHOOSE i \in 1..Len(s) :
                        s[i] = sep /\ \A j \in 1..(i - 1) : s[j] # sep
         IN  << SubSeq(s, 1, idx - 1) >> \o Split(SubSeq(s, idx + 1, Len(s)), sep)

\* The value of a run of decimal digits.
RECURSIVE DigitsValue(_)
DigitsValue(s) ==
    IF s = <<>> THEN 0
    ELSE 10 * DigitsValue(SubSeq(s, 1, Len(s) - 1)) + (s[Len(s)] - 48)

\* str::parse::<u32>: an optional '+' and at least one decimal digit; -1
\* stands for the Err the caller unwraps.
ParseU32(s) ==
    LET digits == IF s # <<>> /\ s[1] = 43 THEN Tail(s) ELSE s
    IN  IF digits # <<>> /\ \A i \in 1..Len(digits) : digits[i] \in 48..57
        THEN DigitsValue(digits)
        ELSE -1

NoEntry == [entry_type |-> "Skip", name |-> <<>>, size |-> 0]

\* parse_directory_entry: the size field is parsed (and unwrapped) before the
\* type character is looked at.
parse_directory_entry(entry) ==
    LET parts == Split(entry, 9)
        temp_filename == parts[1]
        name == IF temp_filename = <<>> THEN <<>> ELSE Tail(temp_filename)
        size == IF Len(parts) >= 2 THEN ParseU32(parts[2]) ELSE 0
    IN  IF size < 0
        THEN [tag |-> "Panic", entry |-> NoEntry]
        ELSE IF temp_filename # <<>> /\ temp_filename[1] \in {70, 68, 83}
        THEN [tag |-> "Ok", entry |->
                [entry_type |-> CASE temp_filename[1] = 70 -> "File"
                                  [] temp_filename[1] = 68 -> "Directory"
                                  [] OTHER -> "Skip",
                 name |-> name, size |-> size]]
        ELSE [tag |-> "Err", entry |-> NoEntry]

\* String comparison (partial_cmp on the names): lexicographic on the bytes.
RECURSIVE StrLeq(_, _)
StrLeq(a, b) ==
    IF a = <<>> THEN TRUE
    ELSE IF b = <<>> THEN FALSE
    ELSE IF a[1] # b[1] THEN a[1] < b[1]
    ELSE StrLeq(Tail(a), Tail(b))

\* entries.sort_by(name): a stable sort.
RECURSIVE InsertByName(_, _)
InsertByName(sorted, e) ==
    IF sorted = <<>> THEN << e >>
    ELSE IF StrLeq(Head(sorted).name, e.name)
    THEN << Head(sorted) >> \o InsertByName(Tail(sorted), e)
    ELSE << e >> \o sorted

RECURSIVE SortByName(_)
SortByName(es) ==
    IF es = <<>> THEN <<>>
    ELSE InsertByName(SortByName(SubSeq(es, 1, Len(es) - 1)), es[Len(es)])

\* status.path.split('/').last(): the bytes after the last '/'.
LastSegment(path) == LET parts == Split(path, 47) IN parts[Len(parts)]

\* seek(SeekFrom::Start(offset)) then write_all(chunk): the chunk replaces the
\* bytes at offset .. offset + len; a gap before offset reads as zero bytes.
WriteAt(content, offset, chunk) ==
    LET newLen == IF offset + Len(chunk) > Len(content) /\ chunk # <<>>
                  THEN offset + Len(chunk) ELSE Len(content)
    IN  [i \in 1..newLen |->
            IF i > offset /\ i <= offset + Len(chunk) THEN chunk[i - offset]
            ELSE IF i <= Len(content) THEN content[i]
            ELSE 0]

(***************************************************************************)
(* The checksum helper (mavftp.rs 266-310).  A u32 is held as its two      *)
(* 16-bit halves << high, low >>, each within the model checker's integers.*)
(***************************************************************************)
\* a ^ b on non-negative integers
RECURSIVE BitXor(_, _)
BitXor(a, b) ==
    IF a = 0 THEN b
    ELSE IF b = 0 THEN a
    ELSE (((a % 2) + (b % 2)) % 2) + 2 * BitXor(a \div 2, b \div 2)

\* x ^ y on u32
Xor32(x, y) == << BitXor(x[1], y[1]), BitXor(x[2], y[2]) >>

\* x >> 8 on u32
Shr8(x) == << x[1] \div 256, (x[1] % 256) * 256 + x[2] \div 256 >>

\* CRC32_TABLE[i] is CRC32_TABLE[i + 1] here.
CRC32_TABLE ==
    <<
       <<     0,     0 >>, << 30471, 12438 >>, << 60942, 24876 >>, << 39177, 20922 >>,
       <<  1901, 50201 >>, << 28778, 62607 >>, << 59747, 42293 >>, << 40548, 38307 >>,
       <<  3803, 34866 >>, << 31196, 47268 >>, << 57557, 59678 >>, << 38866, 55688 >>,
       <<  2486, 19499 >>, << 32433, 31933 >>, << 59320, 11527 >>, << 37055,  7569 >>,
       <<  7607,  4196 >>, << 27312,  8434 >>, << 62393, 29000 >>, << 33982, 16862 >>,
       <<  6874, 54397 >>, << 28125, 58603 >>, << 62676, 46417 >>, << 33747, 34247 >>,
       <<  4972, 38998 >>, << 25707, 43200 >>, << 64866, 63866 >>, << 35429, 51692 >>,
       <<  5121, 23631 >>, << 25350, 27865 >>, << 64015, 15715 >>, << 36104,  3573 >>,
       << 15214,  8392 >>, << 19561,  4190 >>, << 54624, 16868 >>, << 41575, 29042 >>,
       << 15363, 58577 >>, << 19204, 54343 >>, << 53773, 34301 >>, << 42250, 46443 >>,
       << 13749, 43258 >>, << 17074, 39020 >>, << 56251, 51670 >>, << 44220, 63808 >>,
       << 13016, 27875 >>, << 17887, 23669 >>, << 56534,  3535 >>, << 43985, 15705 >>,
       <<  9945, 12460 >>, << 20958,    58 >>, << 51415, 20864 >>, << 49104, 24854 >>,
       <<  8628, 62645 >>, << 22195, 50211 >>, << 53178, 38297 >>, << 47293, 42255 >>,
       << 10242, 47262 >>, << 24325, 34824 >>, << 50700, 55730 >>, << 45323, 59684 >>,
       << 12143, 31879 >>, << 22632, 19473 >>, << 49505,  7595 >>, << 46694, 11581 >>,
       << 30428, 16784 >>, <<   475, 28934 >>, << 39122,  8380 >>, << 61397,  4138 >>,
       << 29105, 34185 >>, <<  1718, 46367 >>, << 40895, 58533 >>, << 59576, 54323 >>,
       << 30727, 51618 >>, <<  3840, 63796 >>, << 38409, 43150 >>, << 57614, 38936 >>,
       << 32618,  3515 >>, <<  2157, 15661 >>, << 37220, 27799 >>, << 58979, 23553 >>,
       << 27499, 20980 >>, <<  7276, 24930 >>, << 34149, 12504 >>, << 62050,    78 >>,
       << 27654, 38381 >>, <<  6913, 42363 >>, << 33288, 62657 >>, << 62735, 50263 >>,
       << 26032, 55750 >>, <<  4791, 59728 >>, << 35774, 47338 >>, << 64697, 34940 >>,
       << 25309,  7647 >>, <<  5594, 11593 >>, << 36051, 31987 >>, << 64468, 19557 >>,
       << 19890, 24920 >>, << 15029, 20942 >>, << 41916,   116 >>, << 54459, 12514 >>,
       << 19167, 42305 >>, << 15832, 38359 >>, << 42193, 50285 >>, << 54230, 62715 >>,
       << 17257, 59754 >>, << 13422, 55804 >>, << 44391, 34886 >>, << 55904, 47312 >>,
       << 17412, 11635 >>, << 13059,  7653 >>, << 43530, 19551 >>, << 56589, 31945 >>,
       << 20485, 28988 >>, <<  9986, 16810 >>, << 48651,  4112 >>, << 51468,  8326 >>,
       << 22376, 46373 >>, <<  8303, 34227 >>, << 47462, 54281 >>, << 52833, 58527 >>,
       << 24286, 63758 >>, << 10713, 51608 >>, << 45264, 38946 >>, << 51159, 43188 >>,
       << 22963, 15639 >>, << 11956,  3457 >>, << 47037, 23611 >>, << 49338, 27821 >>,
       << 60856, 33568 >>, << 39615, 46006 >>, <<   950, 57868 >>, << 29873, 53914 >>,
       << 60117, 18233 >>, << 40402, 30639 >>, <<  1243,  9749 >>, << 29660,  5763 >>,
       << 58211,  2834 >>, << 37988, 15236 >>, <<  3437, 27198 >>, << 31338, 23208 >>,
       << 58382, 53003 >>, << 37641, 65437 >>, <<  2560, 44583 >>, << 32007, 40625 >>,
       << 61455, 37700 >>, << 34568, 41938 >>, <<  7681, 62056 >>, << 26886, 49918 >>,
       << 63330, 22365 >>, << 32869, 26571 >>, <<  6508, 13937 >>, << 28267,  1767 >>,
       << 65236,  7030 >>, << 35283, 11232 >>, <<  4314, 31322 >>, << 26589, 19148 >>,
       << 63929, 57199 >>, << 36542, 61433 >>, <<  6071, 48707 >>, << 24752, 36565 >>,
       << 54998, 41960 >>, << 41425, 37758 >>, << 14552, 49860 >>, << 20447, 62034 >>,
       << 53691, 26609 >>, << 42684, 22375 >>, << 16309,  1757 >>, << 18610, 13899 >>,
       << 55309, 11226 >>, << 44810,  6988 >>, << 13827, 19190 >>, << 16644, 31328 >>,
       << 57184, 61379 >>, << 43111, 57173 >>, << 12654, 36591 >>, << 18025, 48761 >>,
       << 52065, 45964 >>, << 48230, 33562 >>, <<  9583, 53920 >>, << 21096, 57910 >>,
       << 52236, 30613 >>, << 47883, 18179 >>, <<  8706,  5817 >>, << 21765,  9775 >>,
       << 50618, 15294 >>, << 45757,  2856 >>, << 11188, 23186 >>, << 23731, 27140 >>,
       << 49879, 65447 >>, << 46544, 53041 >>, << 11481, 40587 >>, << 23518, 44573 >>,
       << 39780, 49840 >>, << 60515, 61990 >>, << 30058, 41884 >>, <<   621, 37642 >>,
       << 39945,  1705 >>, << 60174, 13887 >>, << 29191, 26501 >>, <<  1280, 22291 >>,
       << 38335, 19074 >>, << 58040, 31252 >>, << 31665, 11182 >>, <<  3254,  6968 >>,
       << 37586, 36507 >>, << 58837, 48653 >>, << 31964, 61367 >>, <<  3035, 57121 >>,
       << 34515, 53972 >>, << 61908, 57922 >>, << 26845, 46072 >>, <<  8154, 33646 >>,
       << 33214,  5837 >>, << 63161,  9819 >>, << 28592, 30689 >>, <<  6327, 18295 >>,
       << 34824, 23270 >>, << 65295, 27248 >>, << 26118, 15306 >>, <<  4353,  2908 >>,
       << 36709, 40703 >>, << 63586, 44649 >>, << 24939, 65491 >>, <<  5740, 53061 >>,
       << 40970, 57976 >>, << 55053, 53998 >>, << 19972, 33620 >>, << 14595, 46018 >>,
       << 42855,  9825 >>, << 53344,  5879 >>, << 18793, 18253 >>, << 15982, 30683 >>,
       << 44753, 27210 >>, << 55766, 23260 >>, << 16607,  2918 >>, << 14296, 15344 >>,
       << 43452, 44627 >>, << 57019, 40645 >>, << 18354, 53119 >>, << 12469, 65513 >>,
       << 48573, 61980 >>, << 51898, 49802 >>, << 21427, 37680 >>, <<  9396, 41894 >>,
       << 47824, 13829 >>, << 52695,  1683 >>, << 21726, 22313 >>, <<  9177, 26559 >>,
       << 45926, 31278 >>, << 50273, 19128 >>, << 23912,  6914 >>, << 10863, 11156 >>,
       << 46091, 48695 >>, << 49932, 36513 >>, << 23045, 57115 >>, << 11522, 61325 >>
    >>

\* The register mavlink_crc32 starts from: `let mut crc = 0`.
CrcStart == << 0, 0 >>

\* The loop of mavlink_crc32: index = (crc ^ b) & 0xff, then
\* crc = CRC32_TABLE[index] ^ (crc >> 8).
RECURSIVE CrcLoop(_, _)
CrcLoop(buffer, crc) ==
    IF buffer = <<>> THEN crc
    ELSE LET index == BitXor(crc[2] % 256, Head(buffer))
             table_value == CRC32_TABLE[index + 1]
         IN  CrcLoop(Tail(buffer), Xor32(table_value, Shr8(crc)))

\* The register set to all ones at the start and complemented at the end.
mavlink_crc32_ieee(buffer) ==
    Xor32(CrcLoop(buffer, << 65535, 65535 >>), << 65535, 65535 >>)

mavlink_crc32(buffer) == CrcLoop(buffer, CrcStart)

(***************************************************************************)
(* The Controller (controller.rs 42-49) and the process it runs in.        *)
(***************************************************************************)
VARIABLES
    session,          \* Controller.session
    entries,          \* Controller.entries
    status,           \* Controller.status
    waiting,          \* Controller.waiting
    file,             \* the content of the local output file
    outcome,          \* "running", or how the process ended
    overflow_checks,  \* whether the build panics on integer overflow
    call,             \* the last call made on the Controller and the kind of status it found
    ret,              \* what the last call returned
    sent,             \* request payloads returned since the last parse_mavlink_message began
    listed,           \* the records parsed from the Acks of the listing in progress
    cpc, cin, cbytes, cres,  \* the codec exercised on its own (CodecSpec)
    ccrc,                    \* the checksum computed of cbytes (CodecSpec)
    peer                     \* the remote end and the request it has yet to answer (LiveSpec)

vars == << session, entries, status, waiting, file, outcome, overflow_checks,
           call, ret, sent, listed, cpc, cin, cbytes, cres, ccrc, peer >>

ctl_vars == << session, entries, status, waiting, file, outcome, overflow_checks,
               call, ret, sent, listed >>

codec_vars == << cpc, cin, cbytes, cres, ccrc >>

(***************************************************************************)
(* Bounds of the model.                                                    *)
(***************************************************************************)
\* The accumulated entries are followed up to this many.
MaxEntries == 2
\* The pagination offset is followed up to this value.
MaxOffset == 4
\* The local file is followed up to this many bytes.
MaxFileLen == 2

\* The Controller is within the bounds.
WithinBounds ==
    /\ Len(entries) <= MaxEntries
    /\ status.kind = "ScanningFolder" => status.offset <= MaxOffset
    /\ Len(file) <= MaxFileLen

(***************************************************************************)
(* OperationStatus (controller.rs 13-40); None is Option::None.            *)
(***************************************************************************)
Status(k, p, o, fs) == [kind |-> k, path |-> p, offset |-> o, file_size |-> fs]

None == Status("None", <<>>, 0, 0)
Reset == Status("Reset", <<>>, 0, 0)
ClosingSession == Status("ClosingSession", <<>>, 0, 0)
ScanningFolder(path, offset) == Status("ScanningFolder", path, offset, 0)
OpeningFile(path) == Status("OpeningFile", path, 0, 0)
CalcFileCRC32(path) == Status("CalcFileCRC32", path, 0, 0)
ReadingFile(path, offset, file_size) == Status("ReadingFile", path, offset, file_size)

\* What a call returns: nothing, or a payload; parse_mavlink_message returns
\* its payload encoded (to_bytes) inside a FILE_TRANSFER_PROTOCOL message.
RetNone == [some |-> FALSE, payload |-> NoPayload, bytes |-> <<>>]
RetPayload(p) == [some |-> TRUE, payload |-> p, bytes |-> <<>>]
RetMessage(p) == [some |-> TRUE, payload |-> p, bytes |-> to_bytes(p)]

Call(op, arg) == [op |-> op, arg |-> arg, pre |-> status.kind]

\* Controller::new
ControllerInit ==
    /\ session = 0
    /\ entries = <<>>
    /\ status = None
    /\ waiting = FALSE
    /\ file = <<>>
    /\ outcome = "running"
    /\ overflow_checks \in BOOLEAN
    /\ call = [op |-> "new", arg |-> <<>>, pre |-> "None"]
    /\ ret = RetNone
    /\ sent = 0
    /\ listed = <<>>

(***************************************************************************)
(* list_directory, read_file, reset, crc: each only replaces the status.   *)
(***************************************************************************)
StartStatus_keeps_offset(op, path) ==
    CASE op = "list_directory" -> ScanningFolder(path, status.offset)
      [] op = "read_file" -> OpeningFile(path)
      [] op = "reset" -> Reset
      [] op = "crc" -> CalcFileCRC32(path)

StartStatus(op, path) ==
    CASE op = "list_directory" -> ScanningFolder(path, 0)
      [] op = "read_file" -> OpeningFile(path)
      [] op = "reset" -> Reset
      [] op = "crc" -> CalcFileCRC32(path)

\* A start that empties the entries.
Start_clears_entries(op, path) ==
    /\ outcome = "running"
    /\ status' = StartStatus(op, path)
    /\ call' = Call(op, path)
    /\ ret' = RetNone
    /\ listed' = IF op = "list_directory" THEN <<>> ELSE listed
    /\ entries' = IF op = "list_directory" THEN <<>> ELSE entries
    /\ UNCHANGED << session, waiting, file, outcome, overflow_checks, sent >>
    /\ UNCHANGED codec_vars

Start(op, path) ==
    /\ outcome = "running"
    /\ status' = StartStatus(op, path)
    /\ call' = Call(op, path)
    /\ ret' = RetNone
    /\ listed' = IF op = "list_directory" THEN <<>> ELSE listed
    /\ UNCHANGED << session, entries, waiting, file, outcome, overflow_checks, sent >>
    /\ UNCHANGED codec_vars

list_directory(path) == Start("list_directory", path)
read_file(path) == Start("read_file", path)
reset == Start("reset", <<>>)
crc(path) == Start("crc", path)

(***************************************************************************)
(* run (the poll for an outbound request).                                 *)
(***************************************************************************)
RunPayload_resend_offset(st, sess) ==
    CASE st.kind = "Reset" -> RetPayload(new_reset_sesions(1, sess))
      [] st.kind = "ScanningFolder" ->
            RetPayload(new_list_directory(1, sess, 0, st.path))
      [] st.kind = "OpeningFile" -> RetPayload(new_open_file(1, sess, st.path))
      [] st.kind = "CalcFileCRC32" ->
            RetPayload(new_calc_file_crc32(1, sess, st.path))
      [] st.kind = "ReadingFile" ->
            RetPayload(new_read_file(1, sess, st.offset, UsizeMax))
      [] OTHER -> RetNone

RunPayload(st, sess) ==
    CASE st.kind = "Reset" -> RetPayload(new_reset_sesions(1, sess))
      [] st.kind = "ScanningFolder" ->
            RetPayload(new_list_directory(1, sess, st.offset, st.path))
      [] st.kind = "OpeningFile" -> RetPayload(new_open_file(1, sess, st.path))
      [] st.kind = "CalcFileCRC32" ->
            RetPayload(new_calc_file_crc32(1, sess, st.path))
      [] st.kind = "ReadingFile" -> RetPayload(new_read_file(1, sess, 0, UsizeMax))
      [] OTHER -> RetNone

\* if self.waiting { return None; }
RunGate_open(w) == FALSE

RunGate(w) == w

run ==
    /\ outcome = "running"
    /\ call' = Call("run", <<>>)
    /\ IF RunGate(waiting)
       THEN /\ ret' = RetNone
            /\ UNCHANGED << waiting, sent >>
       ELSE /\ waiting' = TRUE
            /\ ret' = RunPayload(status, session)
            /\ sent' = IF ret'.some THEN sent + 1 ELSE sent
    /\ UNCHANGED << session, entries, status, file, outcome, overflow_checks, listed >>
    /\ UNCHANGED codec_vars

(***************************************************************************)
(* parse_mavlink_message (the handler of an inbound payload).  Each arm    *)
(* maps the Controller as it stands after `self.waiting = false` to the    *)
(* Controller the handler leaves: a record of status, waiting, entries,    *)
(* file, outcome and the value returned.  exit(0) and a panic end the      *)
(* process with what was assigned before them left as it is.               *)
(***************************************************************************)
\* x + 1 on a w-bit unsigned integer: whether it overflows, and the wrapped sum.
Incr(x, modulus) == [overflow |-> x + 1 >= modulus, value |-> (x + 1) % modulus]

\* Ack while Reset (controller.rs 134-139).
AckReset_any_req(payload, s) == [s EXCEPT !.waiting = FALSE, !.status = None]

AckReset(payload, s) ==
    IF payload.req_opcode = OpResetSessions
    THEN [s EXCEPT !.waiting = FALSE, !.status = None]
    ELSE s

\* The loop over the records of a list Ack (controller.rs 147-159); acc holds
\* status.offset, self.entries and whether the loop panicked.
RECURSIVE ScanEntries(_, _, _, _)
ScanEntries(recs, path, checks, acc) ==
    IF recs = <<>> \/ acc.panicked THEN acc
    ELSE IF Head(recs) = <<>> THEN ScanEntries(Tail(recs), path, checks, acc)
    ELSE LET next == Incr(acc.offset, 256)
             r == parse_directory_entry(Head(recs))
         IN  IF next.overflow /\ checks
             THEN [acc EXCEPT !.panicked = TRUE]
             ELSE IF r.tag = "Panic"
             THEN [acc EXCEPT !.offset = next.value, !.panicked = TRUE]
             ELSE IF r.tag = "Ok"
             THEN ScanEntries(Tail(recs), path, checks,
                     [acc EXCEPT !.offset = next.value,
                                 !.entries = Append(@,
                                     [r.entry EXCEPT !.name = path \o << 47 >> \o @])])
             ELSE ScanEntries(Tail(recs), path, checks,
                     [acc EXCEPT !.offset = next.value])

\* A follow-up sent only when this Ack carried a record.
AckScanningFolder_this_round(payload, s) ==
    LET recs == Split(payload.data, 0)
        acc == ScanEntries(recs, s.status.path, overflow_checks,
                   [offset |-> s.status.offset, entries |-> s.entries,
                    panicked |-> FALSE])
        scanned == [s EXCEPT !.status.offset = acc.offset, !.entries = acc.entries]
    IN  IF acc.panicked THEN [scanned EXCEPT !.outcome = "panic"]
        ELSE IF acc.offset # s.status.offset
        THEN [scanned EXCEPT
                 !.waiting = TRUE,
                 !.ret = RetMessage(new_list_directory(1, session, acc.offset,
                                                       s.status.path))]
        ELSE scanned

\* Ack while ScanningFolder (controller.rs 140-178).  split never returns an
\* empty list, so the early return of line 143 is never taken.
AckScanningFolder(payload, s) ==
    LET recs == Split(payload.data, 0)
        acc == ScanEntries(recs, s.status.path, overflow_checks,
                   [offset |-> s.status.offset, entries |-> s.entries,
                    panicked |-> FALSE])
        scanned == [s EXCEPT !.status.offset = acc.offset, !.entries = acc.entries]
    IN  IF acc.panicked THEN [scanned EXCEPT !.outcome = "panic"]
        ELSE IF acc.offset # 0
        THEN [scanned EXCEPT
                 !.waiting = TRUE,
                 !.ret = RetMessage(new_list_directory(1, session, acc.offset,
                                                       s.status.path))]
        ELSE scanned

\* The size learned from whatever data the Ack carries.
AckOpeningFile_any_size(payload, s) ==
    IF LastSegment(s.status.path) = <<>> THEN [s EXCEPT !.outcome = "panic"]
    ELSE [s EXCEPT !.status = ReadingFile(s.status.path, 0,
                                 IF payload.size = 4
                                 THEN u32_from_le_bytes(payload.data) ELSE 0)]

\* Ack while OpeningFile (controller.rs 179-211).  Opening the local file
\* named by the last path segment fails when that segment is empty.
AckOpeningFile(payload, s) ==
    IF payload.size # 4 THEN [s EXCEPT !.outcome = "panic"]
    ELSE IF LastSegment(s.status.path) = <<>> THEN [s EXCEPT !.outcome = "panic"]
    ELSE [s EXCEPT !.status = ReadingFile(s.status.path, 0,
                                          u32_from_le_bytes(payload.data))]

\* Ack while CalcFileCRC32 (controller.rs 212-223).
AckCalcFileCRC32(payload, s) ==
    IF payload.req_opcode = OpCalcFileCRC32
    THEN IF Len(payload.data) < 4 THEN [s EXCEPT !.outcome = "panic"]
         ELSE [s EXCEPT !.outcome = "exit_crc"]
    ELSE s

\* Whether the transfer goes on after a chunk (controller.rs 236).
MoreToRead(offset, file_size) == offset < file_size

\* Ack while ReadingFile (controller.rs 224-285).
AckReadingFile(payload, s) ==
    LET offset == payload.offset + payload.size
        seq == Incr(payload.seq_number, 65536)
        written == [s EXCEPT !.file = WriteAt(s.file, payload.offset, payload.data),
                             !.status.offset = offset]
    IN  IF MoreToRead(offset, s.status.file_size)
        THEN IF payload.burst_complete = 1
             THEN IF seq.overflow /\ overflow_checks
                  THEN [written EXCEPT !.waiting = TRUE, !.outcome = "panic"]
                  ELSE [written EXCEPT
                           !.waiting = TRUE,
                           !.ret = RetMessage(new_read_file(seq.value, session,
                                                            offset, UsizeMax))]
             ELSE [written EXCEPT !.waiting = TRUE]
        ELSE IF seq.overflow /\ overflow_checks
             THEN [written EXCEPT !.status = ClosingSession, !.waiting = TRUE,
                                  !.outcome = "panic"]
             ELSE [written EXCEPT
                      !.status = ClosingSession,
                      !.waiting = TRUE,
                      !.ret = RetMessage(new_terminate_session(seq.value, session))]

\* Ack while ClosingSession (controller.rs 286-289).
AckClosingSession(payload, s) == [s EXCEPT !.outcome = "exit_closed"]

\* The Ack arm (controller.rs 132-292).
AckArm(payload, s) ==
    CASE s.status.kind = "Reset" -> AckReset(payload, s)
      [] s.status.kind = "ScanningFolder" -> AckScanningFolder(payload, s)
      [] s.status.kind = "OpeningFile" -> AckOpeningFile(payload, s)
      [] s.status.kind = "CalcFileCRC32" -> AckCalcFileCRC32(payload, s)
      [] s.status.kind = "ReadingFile" -> AckReadingFile(payload, s)
      [] s.status.kind = "ClosingSession" -> AckClosingSession(payload, s)
      [] OTHER -> s

\* The Nak arm (controller.rs 293-333): payload.data[0] and from_u8(..).unwrap()
\* panic on an empty data field and on an unknown code.
NakArm(payload, s) ==
    IF payload.data = <<>> \/ ~NakValid(payload.data[1])
    THEN [s EXCEPT !.outcome = "panic"]
    ELSE IF payload.data[1] = NakEOF
    THEN [s EXCEPT !.entries = IF payload.req_opcode = OpListDirectory
                               THEN SortByName(@) ELSE @,
                   !.outcome = "exit_eof"]
    ELSE s

\* What the inbound bytes decode to.
IsAck(bytes) == from_bytes(bytes).tag = "Ok" /\ from_bytes(bytes).payload.opcode = OpAck
IsNak(bytes) == from_bytes(bytes).tag = "Ok" /\ from_bytes(bytes).payload.opcode = OpNak

\* The entries a list Ack's records stand for: one per non-empty record that
\* parses, its name prefixed with the listed path and '/'.
RECURSIVE ParsedRecords(_, _)
ParsedRecords(recs, path) ==
    IF recs = <<>> THEN <<>>
    ELSE IF Head(recs) # <<>> /\ parse_directory_entry(Head(recs)).tag = "Ok"
    THEN << [parse_directory_entry(Head(recs)).entry EXCEPT
                !.name = path \o << 47 >> \o @] >>
            \o ParsedRecords(Tail(recs), path)
    ELSE ParsedRecords(Tail(recs), path)

\* The Controller as the handler finds it, once line 129 has cleared the flag.
Entered ==
    [status |-> status, waiting |-> FALSE, entries |-> entries, file |-> file,
     outcome |-> outcome, ret |-> RetNone]

\* Every opcode but Nak handled by the Ack arm.
Handle_other_as_ack(bytes) ==
    LET decoded == from_bytes(bytes)
    IN  IF decoded.tag # "Ok" THEN [Entered EXCEPT !.outcome = "panic"]
        ELSE IF decoded.payload.opcode = OpNak THEN NakArm(decoded.payload, Entered)
        ELSE AckArm(decoded.payload, Entered)

\* from_bytes(..).unwrap(), then the match on the opcode.
Handle(bytes) ==
    LET decoded == from_bytes(bytes)
    IN  IF decoded.tag # "Ok" THEN [Entered EXCEPT !.outcome = "panic"]
        ELSE IF decoded.payload.opcode = OpAck THEN AckArm(decoded.payload, Entered)
        ELSE IF decoded.payload.opcode = OpNak THEN NakArm(decoded.payload, Entered)
        ELSE Entered

parse_mavlink_message(bytes) ==
    /\ outcome = "running"
    /\ \E post \in { Handle(bytes) } :
           /\ status' = post.status
           /\ waiting' = post.waiting
           /\ entries' = post.entries
           /\ file' = post.file
           /\ outcome' = post.outcome
           /\ ret' = post.ret
           /\ sent' = IF post.ret.some THEN 1 ELSE 0
    /\ call' = Call("parse_mavlink_message", bytes)
    /\ listed' = IF status.kind = "ScanningFolder" /\ IsAck(bytes)
                 THEN listed \o ParsedRecords(Split(from_bytes(bytes).payload.data, 0),
                                              status.path)
                 ELSE listed
    /\ UNCHANGED << session, overflow_checks >>
    /\ UNCHANGED codec_vars

(***************************************************************************)
(* The inputs the model draws: the paths operations are started on and the *)
(* payloads the peer sends, encoded in the wire format.                    *)
(***************************************************************************)
\* "/" and "/a"
Paths == { << 47 >>, << 47, 97 >> }

\* The remote file the peer serves chunks of.
RemoteFile == << 11, 22 >>

Response(seq, op, req, bc, off, data) ==
    to_bytes(Payload(seq, 0, op, Len(data), req, bc, 0, off, data))

\* "Xq\0Fa\t7\0", "", "Fc\tz"
ListData == { << 88, 113, 0, 70, 97, 9, 55, 0 >>, <<>>, << 70, 99, 9, 122 >> }

AckList == { Response(1, OpAck, OpListDirectory, 0, 0, d) : d \in ListData }

AckPlain ==
    { Response(1, OpAck, req, 0, 0, <<>>) :
        req \in {OpResetSessions, OpTerminateSession, OpOpenFileRO, OpCalcFileCRC32} }

AckValue ==
    { Response(1, OpAck, req, 0, 0, << 2, 0, 0, 0 >>) :
        req \in {OpOpenFileRO, OpCalcFileCRC32} }

\* Chunks of the remote file; the last two carry the largest sequence number.
AckBurst ==
    { Response(5, OpAck, OpBurstReadFile, bc, c[1], SubSeq(RemoteFile, c[1] + 1, c[1] + c[2])) :
        bc \in {0, 1}, c \in { << 0, 1 >>, << 0, 2 >>, << 1, 1 >> } }
    \cup { Response(65535, OpAck, OpBurstReadFile, 1, 0, << 11 >>),
           Response(65535, OpAck, OpBurstReadFile, 1, 1, << 22 >>) }

Naks ==
    { Response(1, OpNak, OpListDirectory, 0, 0, << NakEOF >>),
      Response(1, OpNak, OpBurstReadFile, 0, 0, << NakEOF >>),
      Response(1, OpNak, OpListDirectory, 0, 0, << NakFailErrno >>),
      Response(1, OpNak, OpOpenFileRO, 0, 0, << NakFileNotFound >>),
      Response(1, OpNak, OpListDirectory, 0, 0, << 11 >>),
      Response(1, OpNak, OpListDirectory, 0, 0, <<>>) }

\* Payloads whose opcode is neither Ack nor Nak.
OtherOpcode ==
    { Response(1, OpListDirectory, OpNone, 0, 0, << 47 >>),
      Response(1, OpBurstReadFile, OpNone, 1, 0, <<>>) }

\* Too short for a header; an unknown opcode byte; a body shorter than its size.
Malformed ==
    { << 1, 0, 0 >>,
      << 1, 0, 0, 200, 0, 0, 0, 0, 0, 0, 0, 0 >>,
      << 1, 0, 0, 128, 4, 4, 0, 0, 0, 0, 0, 0, 3 >> }

Inbound == AckList \cup AckPlain \cup AckValue \cup AckBurst \cup Naks
             \cup OtherOpcode \cup Malformed

(***************************************************************************)
(* The remote end (the MAVLink FTP server the Controller talks to): a      *)
(* directory, a file, and the request it has received and not yet fully    *)
(* answered.  It answers as the protocol prescribes.                       *)
(***************************************************************************)
\* The directory the peer lists has this many records at most; 256 is the
\* first count an 8-bit offset cannot hold.
DirSize == 256
\* The peer packs this many records into one Ack.
RecordsPerAck == 32
\* The peer sends this many bytes in one chunk and this many chunks in a burst.
ChunkLen == 1
BurstChunks == 2

\* "Fa\t7" and "Db\t0": a file and a directory.
SmallDir == << << 70, 97, 9, 55 >>, << 68, 98, 9, 48 >> >>
\* DirSize records "Xq", of a type this client does not know and drops, so
\* that the entries it accumulates stay few however often it lists.
BigDir == [i \in 1..DirSize |-> << 88, 113 >>]

RemoteDirs == { <<>>, SmallDir, BigDir }
RemoteFiles == { <<>>, << 11, 22, 33 >> }

Peer(dir, content, some, req, next, chunks, seq, received) ==
    [dir |-> dir, content |-> content, some |-> some, req |-> req, next |-> next,
     chunks |-> chunks, seq |-> seq, received |-> received]

\* No remote end: the Controller is driven with arbitrary payloads.
NoPeer == Peer(<<>>, <<>>, FALSE, NoPayload, 0, 0, 0, 0)

\* The records, each followed by a 0 byte.
RECURSIVE Joined(_)
Joined(recs) ==
    IF recs = <<>> THEN <<>> ELSE Head(recs) \o << 0 >> \o Joined(Tail(recs))

Min(a, b) == IF a < b THEN a ELSE b

\* The checksum the peer reports of its file: 4 bytes, which the Controller
\* prints as they come.
RemoteCrc == << 136, 45, 253, 45 >>

\* What the peer sends next for the request it holds.
PeerResponse(p) ==
    LET seq == (p.seq + 1) % 65536
    IN  CASE p.req.opcode = OpResetSessions ->
                Response(seq, OpAck, OpResetSessions, 0, 0, <<>>)
          [] p.req.opcode = OpTerminateSession ->
                Response(seq, OpAck, OpTerminateSession, 0, 0, <<>>)
          [] p.req.opcode = OpCalcFileCRC32 ->
                Response(seq, OpAck, OpCalcFileCRC32, 0, 0, RemoteCrc)
          [] p.req.opcode = OpOpenFileRO ->
                Response(seq, OpAck, OpOpenFileRO, 0, 0, u32_to_le_bytes(Len(p.content)))
          [] p.req.opcode = OpListDirectory ->
                IF p.req.offset >= Len(p.dir)
                THEN Response(seq, OpNak, OpListDirectory, 0, 0, << NakEOF >>)
                ELSE Response(seq, OpAck, OpListDirectory, 0, 0,
                         Joined(SubSeq(p.dir, p.req.offset + 1,
                                       Min(p.req.offset + RecordsPerAck, Len(p.dir)))))
          [] p.req.opcode = OpBurstReadFile ->
                IF p.next >= Len(p.content)
                THEN Response(seq, OpNak, OpBurstReadFile, 0, 0, << NakEOF >>)
                ELSE Response(seq, OpAck, OpBurstReadFile,
                         IF p.chunks + 1 = BurstChunks
                            \/ p.next + ChunkLen >= Len(p.content) THEN 1 ELSE 0,
                         p.next,
                         SubSeq(p.content, p.next + 1,
                                Min(p.next + ChunkLen, Len(p.content))))

\* The peer once it has sent that: a burst goes on until its last chunk,
\* every other request is answered by one payload.  The records sent are
\* counted up to twice the size of the directory, beyond what 8 bits hold.
PeerAfter(p) ==
    LET more == /\ p.req.opcode = OpBurstReadFile
                /\ p.chunks + 1 < BurstChunks
                /\ p.next + ChunkLen < Len(p.content)
        got == IF p.req.opcode = OpListDirectory /\ p.req.offset < Len(p.dir)
               THEN Min(p.req.offset + RecordsPerAck, Len(p.dir)) - p.req.offset
               ELSE 0
    IN  [p EXCEPT !.some = more,
                  !.next = IF more THEN p.next + ChunkLen ELSE p.next,
                  !.chunks = IF more THEN p.chunks + 1 ELSE 0,
                  !.seq = (p.seq + 1) % 65536,
                  !.received = Min(p.received + got, 2 * DirSize)]

\* The peer receives a request.
Post(p, request) ==
    [p EXCEPT !.some = TRUE, !.req = request, !.next = request.offset,
              !.chunks = 0, !.seq = request.seq_number]

(***************************************************************************)
(* The codec on its own: a payload built by one of the six constructors is *)
(* encoded and decoded again, and raw inputs are decoded.                  *)
(***************************************************************************)
LongPath(n) == [i \in 1..n |-> 97]

CodecPaths == { <<>>, << 47 >>, << 47, 97 >>, LongPath(255), LongPath(256), LongPath(257) }
CodecSeqs == { 0, 1, 258, 65535 }
CodecSessions == { 0, 7 }
CodecOffsets == { 0, 1, 70000 }
CodecSizes == { 0, 1, 239, 240, UsizeMax }

Constructed ==
    { new_reset_sesions(q, ss) : q \in CodecSeqs, ss \in CodecSessions }
    \cup { new_terminate_session(q, ss) : q \in CodecSeqs, ss \in CodecSessions }
    \cup { new_list_directory(q, ss, o, pth) :
             q \in CodecSeqs, ss \in CodecSessions, o \in CodecOffsets, pth \in CodecPaths }
    \cup { new_open_file(q, ss, pth) :
             q \in CodecSeqs, ss \in CodecSessions, pth \in CodecPaths }
    \cup { new_read_file(q, ss, o, n) :
             q \in CodecSeqs, ss \in CodecSessions, o \in CodecOffsets, n \in CodecSizes }
    \cup { new_calc_file_crc32(q, ss, pth) :
             q \in CodecSeqs, ss \in CodecSessions, pth \in CodecPaths }

\* Raw inputs: every prefix of a well-formed Ack, of a Nak and of a payload
\* followed by bytes past its size, and headers with an unknown opcode byte.
RawBases ==
    { Response(1, OpAck, OpOpenFileRO, 0, 0, << 3, 0, 0, 0 >>),
      Response(513, OpNak, OpListDirectory, 0, 70000, << 6 >>),
      Response(1, OpAck, OpBurstReadFile, 1, 1, << 22 >>) \o << 99, 98 >>,
      << 1, 0, 0, 200, 2, 0, 0, 0, 0, 0, 0, 0, 1, 2 >>,
      << 1, 0, 0, 128, 2, 77, 0, 0, 0, 0, 0, 0, 1, 2 >> }

RawInputs == UNION { { SubSeq(b, 1, n) : n \in 0..Len(b) } : b \in RawBases }

\* The buffers the checksum is computed of: "123456789", the empty buffer,
\* every single byte, and a few of two bytes.
Buffers ==
    { << 49, 50, 51, 52, 53, 54, 55, 56, 57 >>, <<>> }
    \cup { << b >> : b \in 0..255 }
    \cup { << 11, 22 >>, << 255, 255 >>, << 0, 0 >>, << 49, 50 >> }

NoResult == [tag |-> "None", msg |-> "", payload |-> NoPayload]

CodecIdle ==
    /\ cpc = "idle"
    /\ cin = NoPayload
    /\ cbytes = <<>>
    /\ cres = NoResult
    /\ ccrc = CrcStart

CodecInit ==
    /\ ControllerInit
    /\ peer = NoPeer
    /\ overflow_checks = TRUE
    /\ cres = NoResult
    /\ ccrc = CrcStart
    /\ \/ /\ cpc = "constructed"
          /\ cin \in Constructed
          /\ cbytes = <<>>
       \/ /\ cpc = "received"
          /\ cin = NoPayload
          /\ cbytes \in RawInputs
       \/ /\ cpc = "buffer"
          /\ cin = NoPayload
          /\ cbytes \in Buffers

Encode ==
    /\ cpc = "constructed"
    /\ cbytes' = to_bytes(cin)
    /\ cpc' = "encoded"
    /\ UNCHANGED << cin, cres, ccrc >>
    /\ UNCHANGED << ctl_vars, peer >>

Decode ==
    /\ cpc \in {"encoded", "received"}
    /\ cres' = from_bytes(cbytes)
    /\ cpc' = IF cpc = "encoded" THEN "round_trip" ELSE "decoded"
    /\ UNCHANGED << cin, cbytes, ccrc >>
    /\ UNCHANGED << ctl_vars, peer >>

Checksum ==
    /\ cpc = "buffer"
    /\ ccrc' = mavlink_crc32(cbytes)
    /\ cpc' = "checksummed"
    /\ UNCHANGED << cin, cbytes, cres >>
    /\ UNCHANGED << ctl_vars, peer >>

CodecNext == Encode \/ Decode \/ Checksum

CodecSpec == CodecInit /\ [][CodecNext]_vars

(***************************************************************************)
(* The Controller driven by its caller: operations are started, the        *)
(* transport polls for a request and hands over each inbound payload.      *)
(***************************************************************************)
Init == ControllerInit /\ CodecIdle /\ peer = NoPeer

StartList == \E path \in Paths : list_directory(path) /\ UNCHANGED peer
StartRead == \E path \in Paths : read_file(path) /\ UNCHANGED peer
StartReset == reset /\ UNCHANGED peer
StartCrc == \E path \in Paths : crc(path) /\ UNCHANGED peer
Poll == run /\ UNCHANGED peer
OnResponse ==
    \E bytes \in Inbound :
        parse_mavlink_message(bytes) /\ WithinBounds' /\ UNCHANGED peer

Next == StartList \/ StartRead \/ StartReset \/ StartCrc \/ Poll \/ OnResponse

Spec == Init /\ [][Next]_vars

(***************************************************************************)
(* The Controller with the remote end: one operation is started, the       *)
(* transport keeps polling, every request returned reaches the peer and    *)
(* every payload the peer sends is handed to parse_mavlink_message.        *)
(***************************************************************************)
LiveInit ==
    /\ ControllerInit
    /\ CodecIdle
    /\ \E dir \in RemoteDirs, content \in RemoteFiles :
           peer = Peer(dir, content, FALSE, NoPayload, 0, 0, 0, 0)

LiveStart ==
    /\ call.op = "new"
    /\ \/ \E path \in Paths : list_directory(path)
       \/ \E path \in Paths : read_file(path)
       \/ reset
       \/ \E path \in Paths : crc(path)
    /\ UNCHANGED peer

LivePoll ==
    /\ run
    /\ peer' = IF ret'.some THEN Post(peer, ret'.payload) ELSE peer

PeerAnswers ==
    /\ peer.some
    /\ \E bytes \in { PeerResponse(peer) } : parse_mavlink_message(bytes)
    /\ peer' = IF ret'.some THEN Post(PeerAfter(peer), ret'.payload)
               ELSE PeerAfter(peer)

LiveNext == LiveStart \/ LivePoll \/ PeerAnswers

\* PeerAnswers can take a step exactly when the process runs and the peer
\* holds a request (the handler takes any payload, and the step changes peer).
PeerPending == outcome = "running" /\ peer.some

\* The transport keeps polling: weak fairness of LivePoll.  The peer answers
\* every request: weak fairness of PeerAnswers, WF_vars(PeerAnswers), written
\* out with PeerPending for ENABLED <<PeerAnswers>>_vars.
LiveSpec ==
    /\ LiveInit
    /\ [][LiveNext]_vars
    /\ WF_vars(LivePoll)
    /\ ([]<>(~PeerPending) \/ []<><<PeerAnswers>>_vars)

(***************************************************************************)
(* Properties.  A step of the Controller is told by the call it makes:     *)
(* call' names the operation and its argument, the unprimed variables are  *)
(* the Controller the call finds, the primed ones the Controller it leaves.*)
(***************************************************************************)
Polls == call'.op = "run"
Responds == call'.op = "parse_mavlink_message"
Starts == call'.op \in {"list_directory", "read_file", "reset", "crc"}
Inbox == from_bytes(call'.arg).payload
RespondsAck == Responds /\ IsAck(call'.arg)
RespondsNak == Responds /\ IsNak(call'.arg)

\* The statuses for which run has a request to send.
Requesting == {"Reset", "ScanningFolder", "OpeningFile", "CalcFileCRC32", "ReadingFile"}

\* C1: run returns nothing whenever the waiting flag is set, so at most one
\* request payload is returned between the start of one parse_mavlink_message
\* and the start of the next (its own follow-up and those of run counted
\* together); of two consecutive runs the second returns nothing, and the
\* first returns a payload when the flag is clear and the status is one run
\* sends a request for.
C1_AtMostOneOutstanding ==
    /\ [](sent <= 1)
    /\ [](sent = 1 => waiting)
    /\ [][Polls /\ waiting => ~ret'.some /\ waiting' /\ sent' = sent]_vars
    /\ [][Polls /\ call.op = "run" => ~ret'.some]_vars
    /\ [][Polls /\ ~waiting /\ status.kind \in Requesting => ret'.some /\ sent' = 1]_vars

\* A request is outstanding and the run that followed it returned nothing.
C1_Witness ==
    /\ call.op = "run"
    /\ ~ret.some
    /\ sent = 1
    /\ waiting
    /\ status.kind \in Requesting

\* C2: a Nak whose code is not EOF, processed while an operation is active,
\* concludes the operation: the status is None afterwards (or the process
\* has ended), so that no later run sends a request for it.
C2_NakConcludes ==
    [][status.kind # "None" /\ RespondsNak /\ Inbox.data # <<>>
         /\ Inbox.data[1] # NakEOF
       => status'.kind = "None" \/ outcome' # "running"]_vars

\* C3: a listing ends only with an EOF Nak: an Ack processed while
\* ScanningFolder leaves the status ScanningFolder and the process running,
\* the process ends successfully from ScanningFolder only on an EOF Nak, and
\* the entries are then the records parsed from the Acks of this listing
\* (sorted by name when the Nak answers ListDirectory).
C3_ListEndsOnlyOnEof ==
    /\ [][status.kind = "ScanningFolder" /\ RespondsAck
            => status'.kind = "ScanningFolder" /\ outcome' = "running"]_vars
    /\ [][Responds /\ status.kind = "ScanningFolder"
              /\ outcome' \in {"exit_eof", "exit_crc", "exit_closed"}
            => /\ IsNak(call'.arg)
               /\ Inbox.data # <<>>
               /\ Inbox.data[1] = NakEOF
               /\ entries' \in {listed', SortByName(listed')}]_vars

\* C4: while ReadingFile with file_size N, an Ack whose offset + size is at
\* least N moves the status to ClosingSession, sets the flag and returns one
\* terminate-session request; an Ack whose offset + size is below N leaves
\* the status ReadingFile; the session is reported closed only by an Ack
\* processed while ClosingSession.
C4_ReadCompletes ==
    /\ [][status.kind = "ReadingFile" /\ RespondsAck
              /\ Inbox.offset + Inbox.size >= status.file_size
            => /\ status' = ClosingSession
               /\ waiting'
               /\ outcome' = "running"
               /\ ret'.some
               /\ ret'.payload.opcode = OpTerminateSession
               /\ sent' = 1]_vars
    /\ [][status.kind = "ReadingFile" /\ RespondsAck
              /\ Inbox.offset + Inbox.size < status.file_size
            => status'.kind = "ReadingFile"]_vars
    /\ [][outcome' = "exit_closed" /\ outcome = "running"
            => RespondsAck /\ status.kind = "ClosingSession"]_vars

\* The request run is to return for each status, field by field.
ExpectedRequest ==
    CASE status.kind = "Reset" ->
            [seq_number |-> 1, session |-> session, opcode |-> 2, size |-> 0,
             req_opcode |-> 0, burst_complete |-> 0, padding |-> 0, offset |-> 0,
             data |-> <<>>]
      [] status.kind = "ScanningFolder" ->
            [seq_number |-> 1, session |-> session, opcode |-> 3,
             size |-> Len(status.path), req_opcode |-> 0, burst_complete |-> 0,
             padding |-> 0, offset |-> status.offset, data |-> status.path]
      [] status.kind = "OpeningFile" ->
            [seq_number |-> 1, session |-> session, opcode |-> 4,
             size |-> Len(status.path), req_opcode |-> 0, burst_complete |-> 0,
             padding |-> 0, offset |-> 0, data |-> status.path]
      [] status.kind = "CalcFileCRC32" ->
            [seq_number |-> 1, session |-> session, opcode |-> 14,
             size |-> Len(status.path), req_opcode |-> 0, burst_complete |-> 0,
             padding |-> 0, offset |-> 0, data |-> status.path]
      [] status.kind = "ReadingFile" ->
            [seq_number |-> 1, session |-> session, opcode |-> 15, size |-> 239,
             req_opcode |-> 0, burst_complete |-> 0, padding |-> 0, offset |-> 0,
             data |-> <<>>]

\* C7: when the flag is clear, run returns the request of the status and
\* nothing else: reset-sessions, list-directory at the current offset with
\* the path, open-file-read-only with the path, compute-crc32 with the path,
\* burst-read from offset 0 of the maximum chunk whatever the running offset;
\* nothing for None and ClosingSession.
C7_RunRequest ==
    [][Polls /\ ~waiting
       => IF status.kind \in Requesting
          THEN ret'.some /\ ret'.payload = ExpectedRequest
          ELSE ~ret'.some]_vars

\* run returned a burst-read from offset 0 while the running offset is past 0.
C7_Witness ==
    /\ call.op = "run"
    /\ status.kind = "ReadingFile"
    /\ status.offset > 0
    /\ ret.some
    /\ ret.payload.opcode = OpBurstReadFile
    /\ ret.payload.offset = 0

\* C8: each start call, in any state, replaces the status with the initial
\* status of the operation asked for, returns no payload and leaves the
\* flag, the session and everything else of the Controller as they were.
C8_StartReplaces ==
    [][Starts
       => /\ status' =
                CASE call'.op = "list_directory" ->
                        [kind |-> "ScanningFolder", path |-> call'.arg,
                         offset |-> 0, file_size |-> 0]
                  [] call'.op = "read_file" ->
                        [kind |-> "OpeningFile", path |-> call'.arg,
                         offset |-> 0, file_size |-> 0]
                  [] call'.op = "reset" ->
                        [kind |-> "Reset", path |-> <<>>, offset |-> 0, file_size |-> 0]
                  [] call'.op = "crc" ->
                        [kind |-> "CalcFileCRC32", path |-> call'.arg,
                         offset |-> 0, file_size |-> 0]
          /\ ~ret'.some
          /\ waiting' = waiting
          /\ session' = session
          /\ sent' = sent
          /\ entries' = entries
          /\ file' = file]_vars

\* A listing was started over a listing that had advanced, a request outstanding.
C8_Witness ==
    /\ call.op = "list_directory"
    /\ call.pre = "ScanningFolder"
    /\ entries # <<>>
    /\ waiting
    /\ status.kind = "ScanningFolder"
    /\ status.offset = 0

\* C9: while the process runs, the waiting flag is set exactly when a request
\* payload has been returned and no inbound payload processed since, and it
\* goes from clear to set only in a call that returns a request payload.
C9_FlagTracksRequest ==
    /\ [](outcome = "running" => (waiting <=> sent >= 1))
    /\ [][~waiting /\ waiting' /\ outcome' = "running" => ret'.some]_vars

\* C10 as stated: while Reset, any Ack, whatever its req_opcode, moves the
\* status to None and returns no request.
C10_AnyAckEndsReset ==
    [][status.kind = "Reset" /\ RespondsAck => status'.kind = "None" /\ ~ret'.some]_vars

\* C10 as amended: while Reset, an Ack whose req_opcode is ResetSessions moves
\* the status to None and returns no request, an Ack with any other
\* req_opcode leaves the status Reset with the flag clear, so that the next
\* run sends reset-sessions again; with the status None, run returns nothing.
C10_ResetAckEndsReset ==
    /\ [][status.kind = "Reset" /\ RespondsAck /\ Inbox.req_opcode = OpResetSessions
            => status' = None /\ ~ret'.some /\ ~waiting']_vars
    /\ [][status.kind = "Reset" /\ RespondsAck /\ Inbox.req_opcode # OpResetSessions
            => status' = Reset /\ ~ret'.some /\ ~waiting']_vars
    /\ [][Polls /\ status.kind = "None" => ~ret'.some]_vars

\* The Ack of the reset has been processed and the status is None.
C10_Witness ==
    /\ call.op = "parse_mavlink_message"
    /\ call.pre = "Reset"
    /\ IsAck(call.arg)
    /\ from_bytes(call.arg).payload.req_opcode = OpResetSessions
    /\ status = None
    /\ ~waiting

\* C11: while CalcFileCRC32, an Ack ends the operation successfully only if
\* its req_opcode is CalcFileCRC32 and its data is 4 bytes, and an Ack whose
\* req_opcode is another one aborts the operation: the process ends without
\* success or the status becomes None, so that no later run sends the
\* checksum request again.
C11_CrcAckMismatchAborts ==
    /\ [][status.kind = "CalcFileCRC32" /\ RespondsAck /\ outcome' = "exit_crc"
            => Inbox.req_opcode = OpCalcFileCRC32 /\ Len(Inbox.data) = 4]_vars
    /\ [][status.kind = "CalcFileCRC32" /\ RespondsAck
              /\ Inbox.req_opcode # OpCalcFileCRC32
            => outcome' = "panic" \/ status'.kind = "None"]_vars

\* C13: an inbound payload that decodes and whose opcode is neither Ack nor
\* Nak leaves the status with all its fields, the entries and the file as
\* they were, ends nothing and returns no payload, in every state; the
\* handler has cleared the waiting flag before it looks at the opcode.
C13_OtherOpcodeIgnored ==
    [][Responds /\ Len(call'.arg) >= 12 /\ call'.arg[4] \notin {OpAck, OpNak}
         /\ from_bytes(call'.arg).tag = "Ok"
         /\ Inbox.opcode \notin {OpAck, OpNak}
       => /\ status' = status
          /\ entries' = entries
          /\ file' = file
          /\ outcome' = outcome
          /\ ~ret'.some
          /\ sent' = 0
          /\ ~waiting']_vars

\* A payload of another opcode has been processed during a listing that had
\* advanced and during a transfer that had advanced.
C13_Witness ==
    /\ call.op = "parse_mavlink_message"
    /\ from_bytes(call.arg).tag = "Ok"
    /\ from_bytes(call.arg).payload.opcode = OpBurstReadFile
    /\ status.kind = "ScanningFolder"
    /\ status.offset > 0
    /\ entries # <<>>
    /\ ~ret.some

\* C15: on an Ack while ReadingFile whose offset + size is below file_size, a
\* follow-up burst-read is returned exactly when burst_complete is 1; it
\* starts at offset + size and carries the sequence number of the Ack plus
\* one (in 16 bits); when burst_complete is 0 nothing is returned and the
\* flag stays set.
C15_BurstFollowUp ==
    [][status.kind = "ReadingFile" /\ RespondsAck
         /\ Inbox.offset + Inbox.size < status.file_size
       => IF Inbox.burst_complete = 1
          THEN /\ ret'.some
               /\ ret'.payload.opcode = OpBurstReadFile
               /\ ret'.payload.offset = Inbox.offset + Inbox.size
               /\ ret'.payload.seq_number = (Inbox.seq_number + 1) % 65536
               /\ waiting'
          ELSE /\ ~ret'.some
               /\ waiting'
               /\ status'.kind = "ReadingFile"]_vars

\* The number of non-empty records in the data of a list Ack.
NonEmptyRecords(data) ==
    Cardinality({ i \in 1..Len(Split(data, 0)) : Split(data, 0)[i] # <<>> })

\* C16 as stated: an Ack processed to its end while ScanningFolder returns a
\* follow-up list-directory request exactly when the Ack carries at least
\* one non-empty record, whatever the offset reached by earlier Acks.
C16_FollowUpIffRecordInAck ==
    [][status.kind = "ScanningFolder" /\ RespondsAck /\ outcome' = "running"
       => (ret'.some <=> NonEmptyRecords(Inbox.data) > 0)]_vars

\* C16 as amended: an Ack processed to its end while ScanningFolder returns a
\* follow-up exactly when the offset it leaves is not 0, so an Ack without a
\* non-empty record returns nothing while the offset is still 0 and asks
\* again for the current offset once earlier Acks have advanced it; the
\* follow-up is the list-directory request of the path at the offset left,
\* and the flag is set with it; an Ack that panics returns nothing.
C16_FollowUpIffOffsetNonZero ==
    /\ [][status.kind = "ScanningFolder" /\ outcome' = "running" /\ RespondsAck
            => /\ ret'.some <=> status'.offset # 0
               /\ ret'.some
                    => /\ ret'.payload.opcode = OpListDirectory
                       /\ ret'.payload.offset = status'.offset
                       /\ ret'.payload.data = status.path
                       /\ ret'.payload.seq_number = 1
                       /\ waiting'
               /\ ~ret'.some => ~waiting'
               /\ (\A i \in 1..Len(Inbox.data) : Inbox.data[i] = 0)
                    => status'.offset = status.offset]_vars
    /\ [][status.kind = "ScanningFolder" /\ outcome' # "running" /\ RespondsAck
            => ~ret'.some]_vars

\* An Ack without a record has been answered with a follow-up for the offset
\* reached by the Acks before it.
C16_Witness ==
    /\ call.op = "parse_mavlink_message"
    /\ call.pre = "ScanningFolder"
    /\ IsAck(call.arg)
    /\ from_bytes(call.arg).payload.data = <<>>
    /\ status.offset > 0
    /\ ret.some
    /\ ret.payload.offset = status.offset

\* C18: on an Ack while ScanningFolder every non-empty record that does not
\* parse is dropped: the handler goes on, the entries grow by exactly the
\* records that parse and the offset by the number of non-empty records.
C18_BadRecordDropped ==
    [][status.kind = "ScanningFolder" /\ RespondsAck
       => /\ outcome' = "running"
          /\ status'.kind = "ScanningFolder"
          /\ entries' = entries \o ParsedRecords(Split(Inbox.data, 0), status.path)
          /\ status'.offset = status.offset + NonEmptyRecords(Inbox.data)]_vars

\* C19: while OpeningFile, an Ack with exactly 4 bytes of data moves the
\* status to ReadingFile of the same path with offset 0 and file_size the
\* little-endian value of the data, returns nothing and leaves the flag
\* clear (or the process ends because the local file cannot be opened); an
\* Ack with any other data length panics and the status never becomes
\* ReadingFile.
C19_OpenAckFourBytes ==
    /\ [][status.kind = "OpeningFile" /\ RespondsAck /\ Len(Inbox.data) = 4
            => \/ /\ status' = [kind |-> "ReadingFile", path |-> status.path,
                                offset |-> 0,
                                file_size |-> Inbox.data[1] + 256 * Inbox.data[2]
                                    + 65536 * Inbox.data[3] + 16777216 * Inbox.data[4]]
                  /\ ~ret'.some
                  /\ ~waiting'
                  /\ outcome' = "running"
               \/ /\ outcome' = "panic"
                  /\ status' = status
                  /\ LastSegment(status.path) = <<>>]_vars
    /\ [][status.kind = "OpeningFile" /\ RespondsAck /\ Len(Inbox.data) # 4
            => outcome' = "panic" /\ status' = status /\ ~ret'.some]_vars
    /\ [][status.kind # "ReadingFile" /\ status'.kind = "ReadingFile"
            => RespondsAck /\ status.kind = "OpeningFile" /\ Len(Inbox.data) = 4]_vars

\* The Ack of the open has been processed and the status is ReadingFile of
\* the size it carried.
C19_Witness ==
    /\ call.op = "parse_mavlink_message"
    /\ call.pre = "OpeningFile"
    /\ IsAck(call.arg)
    /\ status = ReadingFile(<< 47, 97 >>, 0, 2)
    /\ ~ret.some
    /\ ~waiting

\* How many times e occurs in the sequence es.
Occurrences(e, es) == Cardinality({ i \in 1..Len(es) : es[i] = e })

\* C20: no call clears or shortens the entries: every entry stays, as many
\* times as it occurs, a start leaves the entries as they are, and the
\* entries of an earlier listing are still there when a later one ends.
C20_EntriesOnlyGrow ==
    /\ [][/\ Len(entries') >= Len(entries)
          /\ \A i \in 1..Len(entries) :
                Occurrences(entries[i], entries') >= Occurrences(entries[i], entries)]_vars
    /\ [][Starts \/ Polls => entries' = entries]_vars

\* The listing of "/a" has ended with the EOF Nak and the entries hold an
\* entry of the listing of "/" abandoned before it.
C20_Witness ==
    /\ outcome = "exit_eof"
    /\ status.kind = "ScanningFolder"
    /\ status.path = << 47, 97 >>
    /\ Len(listed) = 1
    /\ Len(entries) = 2
    /\ \E i \in 1..Len(entries) : SubSeq(entries[i].name, 1, 2) = << 47, 47 >>

\* C21: when a read moves from ReadingFile to ClosingSession, every position
\* below file_size of the local file holds a byte a chunk wrote.  A position
\* no chunk wrote reads 0 (the file system fills the gap a seek leaves), and
\* every chunk the peer sends carries non-zero bytes, so a 0 below file_size
\* is a hole.
C21_NoHolesAtCompletion ==
    [][status.kind = "ReadingFile" /\ status'.kind = "ClosingSession"
       => \A i \in 1..status.file_size : i <= Len(file') /\ file'[i] # 0]_vars

\* C22: while ClosingSession the session is reported closed only by the Ack
\* that answers the terminate-session request (req_opcode TerminateSession);
\* an Ack of an earlier request, a further burst-read chunk for one, does
\* not end the operation.
C22_ClosedOnlyByTerminateAck ==
    /\ [][status.kind = "ClosingSession" /\ outcome' = "exit_closed"
            => RespondsAck /\ Inbox.req_opcode = OpTerminateSession]_vars
    /\ [][status.kind = "ClosingSession" /\ RespondsAck
              /\ Inbox.req_opcode # OpTerminateSession
            => outcome' = "running" /\ status' = ClosingSession]_vars

\* C23: run with no operation active returns nothing and leaves the
\* Controller usable: the run that follows a start call made while the
\* status was None returns the first request of the operation started.
\* (The status is None with the flag set only after such a run: the one
\* handler path that sets the status to None, the Ack of a reset, leaves
\* the flag clear.)
C23_IdlePollHarmless ==
    /\ [][Polls /\ status.kind = "None" => ~ret'.some /\ status' = status]_vars
    /\ [][Polls /\ call.op \in {"list_directory", "read_file", "reset", "crc"}
              /\ call.pre = "None"
            => ret'.some /\ ret'.payload = ExpectedRequest]_vars

\* C24: the request returned after an Ack while ReadingFile (the next
\* burst-read when burst_complete is 1 and more is to come, the
\* terminate-session when offset + size reaches file_size) carries the
\* sequence number of the Ack plus one modulo 2^16; the handler does not
\* fail on any sequence number, 65535 included.
C24_FollowUpSeqWraps ==
    [][status.kind = "ReadingFile" /\ RespondsAck
         /\ (Inbox.burst_complete = 1
               \/ Inbox.offset + Inbox.size >= status.file_size)
       => /\ outcome' = "running"
          /\ ret'.some
          /\ ret'.payload.seq_number = (Inbox.seq_number + 1) % 65536]_vars

(***************************************************************************)
(* Properties of the codec (CodecSpec).                                    *)
(***************************************************************************)
\* Every field of the decoded payload is the field of the payload encoded.
SameFields(p, q) ==
    /\ p.seq_number = q.seq_number
    /\ p.session = q.session
    /\ p.opcode = q.opcode
    /\ p.size = q.size
    /\ p.req_opcode = q.req_opcode
    /\ p.burst_complete = q.burst_complete
    /\ p.padding = q.padding
    /\ p.offset = q.offset
    /\ p.data = q.data

\* C5 as stated: for every constructor and every argument, decoding the
\* encoding of the payload succeeds and reproduces every field, and the
\* decoded data is as long as the size field says.
C5_RoundTripEveryPayload ==
    cpc = "round_trip"
    => /\ cres.tag = "Ok"
       /\ SameFields(cres.payload, cin)
       /\ Len(cres.payload.data) = cres.payload.size

\* The payloads whose data is as long as their size field says, in 8 bits:
\* those of reset, terminate, list, open and crc with a path of at most 255
\* bytes, and the burst-read that asks for 0 bytes.
SizedByData(p) ==
    IF p.opcode = OpBurstReadFile THEN p.size = 0 ELSE Len(p.data) <= 255

\* C5 as amended: for the payloads of reset-all-sessions, terminate-session,
\* list-directory, open-file-read-only and compute-remote-crc32 with a path
\* of at most 255 bytes, and of a burst-read asking for 0 bytes, decoding the
\* encoding succeeds and reproduces every field, zero-length data included;
\* whenever a decoding succeeds the decoded data is as long as the decoded
\* size field says.  (A burst-read asking for more declares a size and
\* carries no data, and a longer path declares its length modulo 256: the
\* decoding of those does not reproduce the payload.)
C5_RoundTripSizedPayload ==
    /\ cpc = "round_trip" /\ SizedByData(cin)
         => cres.tag = "Ok" /\ SameFields(cres.payload, cin)
    /\ cpc = "round_trip" /\ ~SizedByData(cin)
         => ~(cres.tag = "Ok" /\ SameFields(cres.payload, cin))
    /\ cres.tag = "Ok" => Len(cres.payload.data) = cres.payload.size

\* A list-directory payload with an empty path and the largest sequence
\* number came back from the round trip.
C5_Witness ==
    /\ cpc = "round_trip"
    /\ cin.opcode = OpListDirectory
    /\ cin.data = <<>>
    /\ cin.seq_number = 65535
    /\ cin.offset = 70000
    /\ cres.tag = "Ok"
    /\ cres.payload.data = <<>>

\* C6: decoding a malformed input returns an error, never a panic and never
\* a payload: the truncated-header error for fewer than 12 bytes, and an
\* error for at least 12 bytes but fewer than 12 + size (size is byte 4).
C6_DecodeRejectsTruncated ==
    cpc \in {"decoded", "round_trip"}
    => /\ Len(cbytes) < 12
            => cres.tag = "Err" /\ cres.msg = "Insufficient bytes in input array"
       /\ Len(cbytes) >= 12 /\ Len(cbytes) < 12 + cbytes[5]
            => cres.tag = "Err"

\* The reflected polynomial 0xEDB88320 (high half 0xEDB8, low half 0x8320)
\* applied bit by bit: n shifts of the register to the right, the polynomial
\* folded in whenever the bit shifted out is 1.
Shr1(x) == << x[1] \div 2, (x[1] % 2) * 32768 + x[2] \div 2 >>

RECURSIVE ShiftBits(_, _)
ShiftBits(reg, n) ==
    IF n = 0 THEN reg
    ELSE LET r == ShiftBits(reg, n - 1)
         IN  IF r[2] % 2 = 1 THEN Xor32(Shr1(r), << 60856, 33568 >>) ELSE Shr1(r)

\* C12 as stated: mavlink_crc32 of "123456789" is 0xCBF43926 (high half
\* 0xCBF4 = 52212, low half 0x3926 = 14630) and of the empty buffer is 0.
C12_CrcIeeeCheckValue ==
    cpc = "checksummed"
    => /\ cbytes = << 49, 50, 51, 52, 53, 54, 55, 56, 57 >> => ccrc = << 52212, 14630 >>
       /\ cbytes = <<>> => ccrc = << 0, 0 >>

\* C12 as amended: mavlink_crc32 of "123456789" is 0x2DFD2D88 (high half
\* 0x2DFD = 11773, low half 0x2D88 = 11656) and of the empty buffer is 0; it
\* is the CRC of the reflected polynomial 0xEDB88320 with the register
\* starting at 0 and no final complement, computed bit by bit here for the
\* buffers of one byte (the 256 table entries) and of two bytes.
C12_CrcZeroInitValue ==
    cpc = "checksummed"
    => /\ cbytes = << 49, 50, 51, 52, 53, 54, 55, 56, 57 >> => ccrc = << 11773, 11656 >>
       /\ cbytes = <<>> => ccrc = << 0, 0 >>
       /\ Len(cbytes) = 1 => ccrc = ShiftBits(<< 0, cbytes[1] >>, 8)
       /\ Len(cbytes) = 2
            => ccrc = ShiftBits(Xor32(<< 0, cbytes[2] >>,
                                      ShiftBits(<< 0, cbytes[1] >>, 8)), 8)

\* The checksum of "123456789" has been computed.
C12_Witness ==
    /\ cpc = "checksummed"
    /\ cbytes = << 49, 50, 51, 52, 53, 54, 55, 56, 57 >>
    /\ ccrc = << 11773, 11656 >>

(***************************************************************************)
(* Properties of the Controller with the remote end (LiveSpec).            *)
(***************************************************************************)
\* The operation has ended: the status is None or the process is over.
Ended == status.kind = "None" \/ outcome # "running"

\* C14: with the transport polling and the peer answering every request as
\* the protocol prescribes, every started operation eventually ends: the
\* status becomes None or the process is over (a panic counted as an end).
C14_EveryOperationEnds == (status.kind # "None") ~> Ended

\* C17: throughout a listing the offset is the number of non-empty records
\* received in the Acks since list_directory, 256 and more included, and the
\* handler never fails on the count.
C17_OffsetCountsRecords ==
    status.kind = "ScanningFolder"
    => outcome # "panic" /\ status.offset = peer.received

=============================================================================
